---- MODULE Spec2Model ----
(***************************************************************************)
(* Layout directives of src/library/layout.rs (page, align, linebreak,     *)
(* parbreak, pagebreak, h, v, box, block, pad, stack, grid) as functions   *)
(* from (StyleContext, Args) to (StyleContext, Args, result), and the      *)
(* evaluation of calls against one ambient StyleContext.                   *)
(***************************************************************************)
EXTENDS Integers, Sequences, FiniteSets, TLC

\* ------------------------------------------------------------------ bounds
\* Most positional arguments in one call.
MaxPos == 3
\* Most named arguments in one call.
MaxNamed == 3
\* Integers given as a track count range over -MaxInt..MaxInt.
MaxInt == 3
\* Most calls in one evaluated call stream (SpecFlow).
MaxCalls == 3

\* ------------------------------------------------------------------ values
\* A dynamically typed Value: kind k with payload in a, b (numbers), s (text)
\* and xs (array elements).  Every kind uses the same record shape.
Val(k, a, b, s, xs) == [k |-> k, a |-> a, b |-> b, s |-> s, xs |-> xs]

\* No argument under that name.
Absent == Val("absent", 0, 0, "", <<>>)

VNone == Val("none", 0, 0, "", <<>>)
VAuto == Val("auto", 0, 0, "", <<>>)
VBool(t) == Val("bool", IF t THEN 1 ELSE 0, 0, "", <<>>)
VInt(n) == Val("int", n, 0, "", <<>>)
VLength(n) == Val("length", n, 0, "", <<>>)
VRelative(r) == Val("relative", 0, r, "", <<>>)
VLinear(n, r) == Val("linear", n, r, "", <<>>)
VFractional(f) == Val("fractional", f, 0, "", <<>>)
VStr(s) == Val("str", 0, 0, s, <<>>)
VArray(xs) == Val("array", 0, 0, "", xs)
VNode(id) == Val("node", 0, 0, id, <<>>)
VAlign(s) == Val("align", 0, 0, s, <<>>)
VDir(s) == Val("dir", 0, 0, s, <<>>)
VColor(s) == Val("color", 0, 0, s, <<>>)

\* Option<T>: <<>> is None, <<x>> is Some(x).
None == <<>>
Some(x) == <<x>>

\* Linear { abs, rel }.
Linear(abs, rel) == [abs |-> abs, rel |-> rel]

\* TypResult of a cast or extraction: ok with an Option payload, or an error.
Ok(v) == [ok |-> TRUE, v |-> v, err |-> ""]
Err(msg) == [ok |-> FALSE, v |-> <<>>, err |-> msg]

\* ----------------------------------------------------------------- casting
\* TrackSizing::Auto | Linear(l) | Fractional(f).
TrackAuto == [t |-> "auto", abs |-> 0, rel |-> 0, fr |-> 0]
TrackLinear(abs, rel) == [t |-> "linear", abs |-> abs, rel |-> rel, fr |-> 0]
TrackFractional(f) == [t |-> "fractional", abs |-> 0, rel |-> 0, fr |-> f]

\* castable! { TrackSizing: ... }
CastTrackSizing(x) ==
    CASE x.k = "auto" -> Ok(Some(TrackAuto))
      [] x.k = "length" -> Ok(Some(TrackLinear(x.a, 0)))
      [] x.k = "relative" -> Ok(Some(TrackLinear(0, x.b)))
      [] x.k = "linear" -> Ok(Some(TrackLinear(x.a, x.b)))
      [] x.k = "fractional" -> Ok(Some(TrackFractional(x.a)))
      [] OTHER -> Err("expected auto, linear, or fractional")

\* count.max(0) as usize
TrackCountNoClamp(count) == IF count < 0 THEN 0 - count ELSE count
TrackCount(count) == IF count > 0 THEN count ELSE 0

\* values.into_iter().filter_map(|v| v.cast().ok()).collect()
RECURSIVE FilterMapTracks(_)
FilterMapTracks(xs) ==
    IF xs = <<>> THEN <<>>
    ELSE LET c == CastTrackSizing(Head(xs))
         IN (IF c.ok THEN c.v ELSE <<>>) \o FilterMapTracks(Tail(xs))

\* castable! { Vec<TrackSizing>: ... }
CastTracks(x) ==
    CASE x.k = "auto" -> Ok(Some(<<TrackAuto>>))
      [] x.k = "length" -> Ok(Some(<<TrackLinear(x.a, 0)>>))
      [] x.k = "relative" -> Ok(Some(<<TrackLinear(0, x.b)>>))
      [] x.k = "linear" -> Ok(Some(<<TrackLinear(x.a, x.b)>>))
      [] x.k = "fractional" -> Ok(Some(<<TrackFractional(x.a)>>))
      [] x.k = "int" -> Ok(Some([i \in 1..TrackCount(x.a) |-> TrackAuto]))
      [] x.k = "array" -> Ok(Some(FilterMapTracks(x.xs)))
      [] OTHER -> Err("expected integer or (auto, linear, fractional, or array thereof)")

\* Child of stack: Spacing(Linear) | Any(Node).
ChildSpacing(l) == [c |-> "spacing", lin |-> l]
ChildAny(id) == [c |-> "any", node |-> id]

\* castable! { Child: "linear or template", ... }
CastChild(x) ==
    CASE x.k = "length" -> Ok(Some(ChildSpacing(Linear(x.a, 0))))
      [] x.k = "relative" -> Ok(Some(ChildSpacing(Linear(0, x.b))))
      [] x.k = "linear" -> Ok(Some(ChildSpacing(Linear(x.a, x.b))))
      [] x.k = "node" -> Ok(Some(ChildAny(x.s)))
      [] OTHER -> Err("expected linear or template")

\* Casts to the types defined outside layout.rs.
CastLinear(x) ==
    CASE x.k = "length" -> Ok(Some(Linear(x.a, 0)))
      [] x.k = "relative" -> Ok(Some(Linear(0, x.b)))
      [] x.k = "linear" -> Ok(Some(Linear(x.a, x.b)))
      [] OTHER -> Err("expected linear")

CastLength(x) == IF x.k = "length" THEN Ok(Some(x.a)) ELSE Err("expected length")
CastBool(x) == IF x.k = "bool" THEN Ok(Some(x.a = 1)) ELSE Err("expected boolean")
CastStr(x) == IF x.k = "str" THEN Ok(Some(x.s)) ELSE Err("expected string")
CastAlign(x) == IF x.k = "align" THEN Ok(Some(x.s)) ELSE Err("expected alignment")
CastDir(x) == IF x.k = "dir" THEN Ok(Some(x.s)) ELSE Err("expected direction")
CastColor(x) == IF x.k = "color" THEN Ok(Some(x.s)) ELSE Err("expected color")
CastNode(x) == IF x.k = "node" THEN Ok(Some(x.s)) ELSE Err("expected template")

\* cast::<T>(value), T named by a string.
Cast(T, x) ==
    CASE T = "length" -> CastLength(x)
      [] T = "linear" -> CastLinear(x)
      [] T = "bool" -> CastBool(x)
      [] T = "str" -> CastStr(x)
      [] T = "align" -> CastAlign(x)
      [] T = "dir" -> CastDir(x)
      [] T = "color" -> CastColor(x)
      [] T = "node" -> CastNode(x)
      [] T = "child" -> CastChild(x)
      [] T = "tracks" -> CastTracks(x)
      [] T = "track" -> CastTrackSizing(x)

\* -------------------------------------------------------------------- Args
\* Args: the positional values in call order and the named values by name.
\* An extraction returns [ok, v, err, args]: the result and the Args left.
Got(r, args) == [ok |-> r.ok, v |-> r.v, err |-> r.err, args |-> args]

\* args.named::<T>(key): remove the argument named key and cast it.
ArgsNamed(args, key, T) ==
    IF args.named[key] = Absent THEN Got(Ok(None), args)
    ELSE Got(Cast(T, args.named[key]),
             [args EXCEPT !.named = [@ EXCEPT ![key] = Absent]])

\* args.eat::<T>(): consume the next positional argument if it casts to T.
ArgsEat(args, T) ==
    IF args.pos = <<>> \/ ~Cast(T, Head(args.pos)).ok THEN Got(Ok(None), args)
    ELSE Got(Cast(T, Head(args.pos)), [args EXCEPT !.pos = Tail(@)])

\* args.expect::<T>(what): like eat, but an error when nothing was consumed.
ArgsExpect(args, what, T) ==
    LET e == ArgsEat(args, T)
    IN IF e.v = None THEN Got(Err("missing argument: " \o what), e.args) ELSE e

\* args.all::<T>(): eat until nothing more is consumed; the items in order.
RECURSIVE ArgsAll(_, _)
ArgsAll(args, T) ==
    LET e == ArgsEat(args, T)
    IN IF e.v = None THEN [items |-> <<>>, args |-> e.args]
       ELSE LET rest == ArgsAll(e.args, T)
            IN [items |-> e.v \o rest.items, args |-> rest.args]

\* let a = args.named(k1)?; let b = args.named(k2)?; ... in the order of keys:
\* the values by key, or the first error.
RECURSIVE NamedInOrder(_, _, _)
NamedInOrder(args, keys, types) ==
    IF keys = <<>> THEN [ok |-> TRUE, err |-> "", args |-> args, vals |-> <<>>]
    ELSE LET n == ArgsNamed(args, Head(keys), types[Head(keys)])
         IN IF ~n.ok THEN [ok |-> FALSE, err |-> n.err, args |-> n.args, vals |-> <<>>]
            ELSE LET rest == NamedInOrder(n.args, Tail(keys), types)
                 IN [rest EXCEPT !.vals = <<n.v>> \o @]

\* Results of a directive call: the style and Args it leaves, and its result.
Return(style, args, val) == [style |-> style, args |-> args, res |-> Ok(Some(val))]
Bail(style, args, msg) == [style |-> style, args |-> args, res |-> Err(msg)]

\* The i-th of the values NamedInOrder extracted.
Nth(vals, i) == vals[i]

\* ------------------------------------------------------------ StyleContext
Sides(l, t, r, b) == [left |-> l, top |-> t, right |-> r, bottom |-> b]

\* Sides::splat(value)
Splat(x) == Sides(x, x, x, x)

\* Paper::from_name: the known presets (sizes in tenths of a millimetre).
PaperFromName(name) ==
    CASE name = "a4" -> Some([class |-> "base", w |-> 2100, h |-> 2970])
      [] name = "us-letter" -> Some([class |-> "us", w |-> 2159, h |-> 2794])
      [] OTHER -> None

\* The style an evaluation starts with.
DefaultStyle ==
    [page |-> [class |-> "base", size |-> [w |-> 2100, h |-> 2970], margins |-> Splat(None)],
     text |-> [align |-> "left"],
     par |-> [align |-> "top"]]

\* Node::to_block(&style): the block form of a content node.
ToBlock(id, style) == [block |-> id]

\* -------------------------------------------------------------------- page
PageKeys == <<"width", "height", "margins", "left", "top", "right", "bottom", "flip">>
PageTypes ==
    [width |-> "length", height |-> "length", margins |-> "linear", left |-> "linear",
     top |-> "linear", right |-> "linear", bottom |-> "linear", flip |-> "bool"]

\* layout.rs 28-41: the preset, then width and height.
PageSize(page, paper, width, height) ==
    LET p1 == IF paper # None
              THEN [page EXCEPT !.class = paper[1].class,
                                !.size = [w |-> paper[1].w, h |-> paper[1].h]]
              ELSE page
        p2 == IF width # None
              THEN [p1 EXCEPT !.class = "custom", !.size.w = width[1]]
              ELSE p1
    IN IF height # None
       THEN [p2 EXCEPT !.class = "custom", !.size.h = height[1]]
       ELSE p2

\* layout.rs 43-61 with the uniform value written after the individual sides.
PageMarginsUniformLast(page, margins, left, top, right, bottom) ==
    LET m1 == IF left # None THEN [page EXCEPT !.margins.left = left] ELSE page
        m2 == IF top # None THEN [m1 EXCEPT !.margins.top = top] ELSE m1
        m3 == IF right # None THEN [m2 EXCEPT !.margins.right = right] ELSE m2
        m4 == IF bottom # None THEN [m3 EXCEPT !.margins.bottom = bottom] ELSE m3
    IN IF margins # None THEN [m4 EXCEPT !.margins = Splat(margins)] ELSE m4

\* layout.rs 43-61: the uniform margins, then each individual side.
PageMargins(page, margins, left, top, right, bottom) ==
    LET m0 == IF margins # None THEN [page EXCEPT !.margins = Splat(margins)] ELSE page
        m1 == IF left # None THEN [m0 EXCEPT !.margins.left = left] ELSE m0
        m2 == IF top # None THEN [m1 EXCEPT !.margins.top = top] ELSE m1
        m3 == IF right # None THEN [m2 EXCEPT !.margins.right = right] ELSE m2
    IN IF bottom # None THEN [m3 EXCEPT !.margins.bottom = bottom] ELSE m3

\* layout.rs 63-65: std::mem::swap of the two components when flip is true.
PageFlip(page, flip) ==
    IF flip # None /\ flip[1]
    THEN [page EXCEPT !.size = [w |-> page.size.h, h |-> page.size.w]]
    ELSE page

\* layout.rs 26-65 with the flip done before width and height are written.
PageApplyFlipFirst(page, paper, vals) ==
    LET flipped == PageFlip(PageSize(page, paper, None, None), Nth(vals, 8))
        sized == PageSize(flipped, None, Nth(vals, 1), Nth(vals, 2))
    IN PageMargins(sized, Nth(vals, 3), Nth(vals, 4), Nth(vals, 5), Nth(vals, 6), Nth(vals, 7))

\* layout.rs 26-65: the writes to the page style, in the order of the code.
PageApply(page, paper, vals) ==
    LET sized == PageSize(page, paper, Nth(vals, 1), Nth(vals, 2))
        margined == PageMargins(sized, Nth(vals, 3), Nth(vals, 4), Nth(vals, 5),
                                Nth(vals, 6), Nth(vals, 7))
    IN PageFlip(margined, Nth(vals, 8))

\* page with the preset written as soon as it is known.
pageWritesEarly(style, args) ==
    LET p == ArgsNamed(args, "paper", "str")
    IN IF ~p.ok THEN Bail(style, p.args, p.err)
       ELSE LET q == IF p.v # None THEN p ELSE ArgsEat(p.args, "str")
                paper == IF q.v = None THEN None ELSE PaperFromName(q.v[1])
            IN IF q.v # None /\ paper = None
               THEN Bail(style, q.args, "invalid paper name")
               ELSE LET early == [style EXCEPT !.page = PageSize(@, paper, None, None)]
                        n == NamedInOrder(q.args, PageKeys, PageTypes)
                    IN IF ~n.ok THEN Bail(early, n.args, n.err)
                       ELSE Return([style EXCEPT !.page = PageApply(@, paper, n.vals)],
                                   n.args, [t |-> "none"])

\* pub fn page
page(style, args) ==
    LET p == ArgsNamed(args, "paper", "str")
    IN IF ~p.ok THEN Bail(style, p.args, p.err)
       ELSE LET q == IF p.v # None THEN p ELSE ArgsEat(p.args, "str")
                paper == IF q.v = None THEN None ELSE PaperFromName(q.v[1])
            IN IF q.v # None /\ paper = None
               THEN Bail(style, q.args, "invalid paper name")
               ELSE LET n == NamedInOrder(q.args, PageKeys, PageTypes)
                    IN IF ~n.ok THEN Bail(style, n.args, n.err)
                       ELSE Return([style EXCEPT !.page = PageApply(@, paper, n.vals)],
                                   n.args, [t |-> "none"])

\* ------------------------------------------------------------------- align
\* Align::axis
Axis(a) ==
    CASE a \in {"left", "right"} -> "horizontal"
      [] a \in {"top", "bottom"} -> "vertical"
      [] OTHER -> "none"

\* layout.rs 79-87 with the slots filled by position instead of by axis.
AlignAssignByPosition(slots, value) ==
    IF slots.horizontal = None THEN [slots EXCEPT !.horizontal = Some(value)]
    ELSE IF slots.vertical = None THEN [slots EXCEPT !.vertical = Some(value)]
    ELSE slots

\* layout.rs 79-87: one positional value into the horizontal or vertical slot.
AlignAssign(slots, value) ==
    IF Axis(value) \in {"horizontal", "none"} /\ slots.horizontal = None
    THEN [slots EXCEPT !.horizontal = Some(value)]
    ELSE IF Axis(value) \in {"vertical", "none"} /\ slots.vertical = None
    THEN [slots EXCEPT !.vertical = Some(value)]
    ELSE slots

\* for value in first.into_iter().chain(second)
RECURSIVE AlignResolve(_, _)
AlignResolve(slots, values) ==
    IF values = <<>> THEN slots
    ELSE AlignResolve(AlignAssign(slots, Head(values)), Tail(values))

\* layout.rs 90-96: the two writes.
AlignApply(style, slots) ==
    LET s1 == IF slots.horizontal # None
              THEN [style EXCEPT !.text.align = slots.horizontal[1]]
              ELSE style
    IN IF slots.vertical # None THEN [s1 EXCEPT !.par.align = slots.vertical[1]] ELSE s1

\* layout.rs 72-88: the extraction and the resolution of the two slots.
AlignSlots(args) ==
    LET first == ArgsEat(args, "align")
        second == ArgsEat(first.args, "align")
        hor == ArgsNamed(second.args, "horizontal", "align")
    IN IF ~hor.ok THEN [ok |-> FALSE, err |-> hor.err, args |-> hor.args, slots |-> <<>>]
       ELSE LET ver == ArgsNamed(hor.args, "vertical", "align")
            IN IF ~ver.ok
               THEN [ok |-> FALSE, err |-> ver.err, args |-> ver.args, slots |-> <<>>]
               ELSE [ok |-> TRUE, err |-> "", args |-> ver.args,
                     slots |-> AlignResolve([horizontal |-> hor.v, vertical |-> ver.v],
                                            first.v \o second.v)]

\* pub fn align
align(style, args) ==
    LET r == AlignSlots(args)
    IN IF ~r.ok THEN Bail(style, r.args, r.err)
       ELSE Return(AlignApply(style, r.slots), r.args, [t |-> "none"])

\* ------------------------------------------------- breaks, spacing, boxes
\* pub fn linebreak, parbreak, pagebreak
linebreak(style, args) == Return(style, args, [t |-> "linebreak"])
parbreak(style, args) == Return(style, args, [t |-> "parbreak"])
pagebreak(style, args) == Return(style, args, [t |-> "pagebreak"])

\* pub fn h, pub fn v: Node::Spacing(axis, spacing).
Spacing(style, args, axis) ==
    LET spacing == ArgsExpect(args, "spacing", "linear")
    IN IF ~spacing.ok THEN Bail(style, spacing.args, spacing.err)
       ELSE Return(style, spacing.args,
                   [t |-> "spacing", axis |-> axis, amount |-> spacing.v[1]])

h(style, args) == Spacing(style, args, "inline")
v(style, args) == Spacing(style, args, "block")

BoxKeys == <<"width", "height", "fill">>
BoxTypes == [width |-> "linear", height |-> "linear", fill |-> "color"]

\* fill.map(Paint::Color)
PaintColor(fill) == IF fill = None THEN None ELSE Some([paint |-> "color", color |-> fill[1]])

\* pub fn boxed
boxed(style, args) ==
    LET n == NamedInOrder(args, BoxKeys, BoxTypes)
    IN IF ~n.ok THEN Bail(style, n.args, n.err)
       ELSE LET body == ArgsEat(n.args, "node")
                node == IF body.v = None THEN "" ELSE body.v[1]
            IN Return(style, body.args,
                      [t |-> "shape", level |-> "inline", shape |-> "rect",
                       width |-> Nth(n.vals, 1), height |-> Nth(n.vals, 2),
                       fill |-> PaintColor(Nth(n.vals, 3)),
                       child |-> Some(ToBlock(node, style))])

\* pub fn block
block(style, args) ==
    LET body == ArgsExpect(args, "body", "node")
    IN IF ~body.ok THEN Bail(style, body.args, body.err)
       ELSE Return(style, body.args, [t |-> "block", level |-> "block", child |-> ToBlock(body.v[1], style)])

PadKeys == <<"left", "top", "right", "bottom">>
PadTypes == [left |-> "linear", top |-> "linear", right |-> "linear", bottom |-> "linear"]

\* side.or(all).unwrap_or_default()
OrAllOrDefault(side, all) ==
    IF side # None THEN side[1] ELSE IF all # None THEN all[1] ELSE Linear(0, 0)

\* pub fn pad
pad(style, args) ==
    LET all == ArgsEat(args, "linear")
        n == NamedInOrder(all.args, PadKeys, PadTypes)
    IN IF ~n.ok THEN Bail(style, n.args, n.err)
       ELSE LET body == ArgsExpect(n.args, "body", "node")
            IN IF ~body.ok THEN Bail(style, body.args, body.err)
               ELSE Return(style, body.args,
                           [t |-> "pad", level |-> "block",
                            padding |-> Sides(OrAllOrDefault(Nth(n.vals, 1), all.v),
                                              OrAllOrDefault(Nth(n.vals, 2), all.v),
                                              OrAllOrDefault(Nth(n.vals, 3), all.v),
                                              OrAllOrDefault(Nth(n.vals, 4), all.v)),
                            child |-> ToBlock(body.v[1], style)])

\* ------------------------------------------------------------------- stack
\* StackChild::Spacing(Linear) | StackChild::Any(block, align).
StackSpacing(l) == [c |-> "spacing", lin |-> l]
StackAny(node, a) == [c |-> "any", node |-> node, align |-> a]

\* layout.rs 194-208 with the default spacing pushed before every content child.
StackPushSpacingAlways(acc, child, spacing, style) ==
    IF child.c = "spacing"
    THEN [children |-> Append(acc.children, StackSpacing(child.lin)), delayed |-> None]
    ELSE LET spaced == IF spacing # None
                       THEN Append(acc.children, StackSpacing(spacing[1]))
                       ELSE acc.children
         IN [children |-> Append(spaced, StackAny(ToBlock(child.node, style), style.par.align)),
             delayed |-> spacing]

\* layout.rs 194-208 with the pending spacer kept over an explicit spacing.
StackPushKeepDelayed(acc, child, spacing, style) ==
    IF child.c = "spacing"
    THEN [children |-> Append(acc.children, StackSpacing(child.lin)), delayed |-> acc.delayed]
    ELSE LET spaced == IF acc.delayed # None
                       THEN Append(acc.children, StackSpacing(acc.delayed[1]))
                       ELSE acc.children
         IN [children |-> Append(spaced, StackAny(ToBlock(child.node, style), style.par.align)),
             delayed |-> spacing]

\* layout.rs 194-208 with the text alignment stored in the child.
StackPushTextAlign(acc, child, spacing, style) ==
    IF child.c = "spacing"
    THEN [children |-> Append(acc.children, StackSpacing(child.lin)), delayed |-> None]
    ELSE LET spaced == IF acc.delayed # None
                       THEN Append(acc.children, StackSpacing(acc.delayed[1]))
                       ELSE acc.children
         IN [children |-> Append(spaced, StackAny(ToBlock(child.node, style), style.text.align)),
             delayed |-> spacing]

\* layout.rs 194-208: one pass of the loop body; acc is (children, delayed).
StackPush(acc, child, spacing, style) ==
    IF child.c = "spacing"
    THEN [children |-> Append(acc.children, StackSpacing(child.lin)), delayed |-> None]
    ELSE LET spaced == IF acc.delayed # None
                       THEN Append(acc.children, StackSpacing(acc.delayed[1]))
                       ELSE acc.children
         IN [children |-> Append(spaced, StackAny(ToBlock(child.node, style), style.par.align)),
             delayed |-> spacing]

\* for child in args.all() { ... }
RECURSIVE StackChildren(_, _, _, _)
StackChildren(acc, items, spacing, style) ==
    IF items = <<>> THEN acc.children
    ELSE StackChildren(StackPush(acc, Head(items), spacing, style), Tail(items), spacing, style)

StackKeys == <<"dir", "spacing">>
StackTypes == [dir |-> "dir", spacing |-> "linear"]

\* stack with a cast error for a positional argument that is left over.
stackStrict(style, args) ==
    LET n == NamedInOrder(args, StackKeys, StackTypes)
    IN IF ~n.ok THEN Bail(style, n.args, n.err)
       ELSE LET dir == IF Nth(n.vals, 1) = None THEN "ttb" ELSE Nth(n.vals, 1)[1]
                all == ArgsAll(n.args, "child")
            IN IF all.args.pos # <<>>
               THEN Bail(style, all.args, "expected linear or template")
               ELSE Return(style, all.args,
                           [t |-> "stack", level |-> "block", dir |-> dir,
                            children |-> StackChildren([children |-> <<>>, delayed |-> None],
                                                       all.items, Nth(n.vals, 2), style)])

\* pub fn stack
stack(style, args) ==
    LET n == NamedInOrder(args, StackKeys, StackTypes)
    IN IF ~n.ok THEN Bail(style, n.args, n.err)
       ELSE LET dir == IF Nth(n.vals, 1) = None THEN "ttb" ELSE Nth(n.vals, 1)[1]
                all == ArgsAll(n.args, "child")
            IN Return(style, all.args,
                      [t |-> "stack", level |-> "block", dir |-> dir,
                       children |-> StackChildren([children |-> <<>>, delayed |-> None],
                                                  all.items, Nth(n.vals, 2), style)])

\* -------------------------------------------------------------------- grid
\* Option<Vec<T>>::unwrap_or_default()
UnwrapOrDefault(opt) == IF opt = None THEN <<>> ELSE opt[1]

\* layout.rs 246-249 with the row gutter taken from the column gutter.
GridGutterRowFromColumn(base, column, row) ==
    [columns |-> IF column # None THEN column[1] ELSE base,
     rows |-> IF column # None THEN column[1] ELSE base]

\* layout.rs 246-249: Spec::new(column_gutter.unwrap_or(base), row_gutter.unwrap_or(base)).
GridGutter(base, column, row) ==
    [columns |-> IF column # None THEN column[1] ELSE base,
     rows |-> IF row # None THEN row[1] ELSE base]

\* args.all().map(|node: Node| node.to_block(&ctx.style)).collect()
GridChildren(items, style) == [i \in 1..Len(items) |-> ToBlock(items[i], style)]

GridKeys == <<"columns", "rows", "gutter", "column_gutter", "row_gutter">>
GridTypes ==
    [columns |-> "tracks", rows |-> "tracks", gutter |-> "tracks",
     column_gutter |-> "tracks", row_gutter |-> "tracks"]

\* pub fn grid
grid(style, args) ==
    LET n == NamedInOrder(args, GridKeys, GridTypes)
    IN IF ~n.ok THEN Bail(style, n.args, n.err)
       ELSE LET all == ArgsAll(n.args, "node")
            IN Return(style, all.args,
                      [t |-> "grid", level |-> "block",
                       tracks |-> [columns |-> UnwrapOrDefault(Nth(n.vals, 1)),
                                   rows |-> UnwrapOrDefault(Nth(n.vals, 2))],
                       gutter |-> GridGutter(UnwrapOrDefault(Nth(n.vals, 3)),
                                             Nth(n.vals, 4), Nth(n.vals, 5)),
                       children |-> GridChildren(all.items, style)])

\* ------------------------------------------------------------------- state
\* style: the ambient StyleContext.  doc: the calls evaluated so far, in source
\* order, each with its Args, the style before and after, the Args left
\* unconsumed and the result returned to the evaluator.
VARIABLES style, doc
vars == <<style, doc>>

\* One call of a directive against the ambient style.
Eval(fn, a, r) ==
    /\ style' = r.style
    /\ doc' = Append(doc, [fn |-> fn, args |-> a, before |-> style, after |-> r.style,
                           left |-> r.args, res |-> r.res])

\* ------------------------------------------------------------------ inputs
Args(pos, named) == [pos |-> pos, named |-> named]
NoNamed == <<>>

\* The sequences over S of length at most n.
PosSeqs(S, n) == UNION {[1..k -> S] : k \in 0..n}

\* The named-argument records of S that give at most MaxNamed arguments.
Given(n) == {k \in DOMAIN n : n[k] # Absent}
AtMostNamed(S) == {n \in S : Cardinality(Given(n)) <= MaxNamed}

PageArgs ==
    {Args(pos, named) :
        pos \in {<<>>, <<VStr("us-letter")>>, <<VStr("a9")>>, <<VBool(TRUE)>>},
        named \in AtMostNamed(
            [paper : {Absent, VStr("a4"), VStr("us-letter"), VStr("a9"), VInt(4)},
             width : {Absent, VLength(1000), VStr("wide")},
             height : {Absent, VLength(500), VRelative(50)},
             margins : {Absent, VLength(10), VBool(TRUE)},
             left : {Absent, VLength(20), VNone},
             top : {Absent, VRelative(5)},
             right : {Absent, VLinear(30, 2)},
             bottom : {Absent, VLength(40), VAuto},
             flip : {Absent, VBool(TRUE), VBool(FALSE), VInt(1)}])}

AlignValues ==
    {VAlign("left"), VAlign("right"), VAlign("top"), VAlign("bottom"), VAlign("center"),
     VLength(5)}

AlignArgs ==
    {Args(pos, named) :
        pos \in PosSeqs(AlignValues, MaxPos),
        named \in AtMostNamed(
            [horizontal : {Absent, VAlign("right"), VAlign("center"), VBool(TRUE)},
             vertical : {Absent, VAlign("bottom"), VStr("low")}])}

NoArgs == {Args(<<>>, NoNamed)}

SpacingArgs ==
    {Args(pos, NoNamed) :
        pos \in PosSeqs({VLength(5), VRelative(10), VLinear(5, 10), VNode("A")}, MaxPos)}

BoxArgs ==
    {Args(pos, named) :
        pos \in PosSeqs({VNode("A"), VBool(TRUE)}, MaxPos),
        named \in AtMostNamed(
            [width : {Absent, VLength(60), VStr("wide")},
             height : {Absent, VRelative(50), VBool(TRUE)},
             fill : {Absent, VColor("red"), VInt(1)}])}

BlockArgs == {Args(pos, NoNamed) : pos \in PosSeqs({VNode("A"), VBool(TRUE)}, MaxPos)}

PadArgs ==
    {Args(pos, named) :
        pos \in PosSeqs({VLength(6), VNode("A"), VBool(TRUE)}, MaxPos),
        named \in AtMostNamed(
            [left : {Absent, VLength(1), VStr("x")},
             top : {Absent, VRelative(2)},
             right : {Absent, VLength(3)},
             bottom : {Absent, VLinear(4, 4), VBool(TRUE)}])}

StackArgs ==
    {Args(pos, named) :
        pos \in PosSeqs({VNode("A"), VNode("B"), VLength(8), VRelative(25), VBool(TRUE)},
                        MaxPos),
        named \in AtMostNamed(
            [dir : {Absent, VDir("ltr"), VInt(1)},
             spacing : {Absent, VLength(3), VRelative(10), VStr("wide")}])}

TrackCounts == {VInt(n) : n \in (0 - MaxInt)..MaxInt}

GridArgs ==
    {Args(pos, named) :
        pos \in PosSeqs({VNode("A"), VBool(TRUE)}, MaxPos),
        named \in AtMostNamed(
            [columns : {Absent, VAuto, VStr("two"),
                        VArray(<<VAuto, VFractional(1), VStr("x"), VFractional(2)>>)}
                       \cup TrackCounts,
             rows : {Absent} \cup TrackCounts,
             gutter : {Absent, VLength(5), VBool(TRUE)},
             column_gutter : {Absent, VLength(7), VInt(2)},
             row_gutter : {Absent, VRelative(9), VStr("x")}])}

\* A style that earlier page and align calls have left.
UsedStyle ==
    align(page(DefaultStyle,
               Args(<<VStr("us-letter")>>,
                    [paper |-> Absent, width |-> Absent, height |-> Absent,
                     margins |-> VLength(7), left |-> Absent, top |-> VLength(9),
                     right |-> Absent, bottom |-> Absent, flip |-> Absent])).style,
          Args(<<VAlign("bottom"), VAlign("right")>>,
               [horizontal |-> Absent, vertical |-> Absent])).style

StartStyles == {DefaultStyle, UsedStyle}

\* ---------------------------------------------- SpecCall: one directive call
InitCall == style \in StartStyles /\ doc = <<>>

CallPage == doc = <<>> /\ \E a \in PageArgs : Eval("page", a, page(style, a))
CallAlign == doc = <<>> /\ \E a \in AlignArgs : Eval("align", a, align(style, a))
CallLinebreak == doc = <<>> /\ \E a \in NoArgs : Eval("linebreak", a, linebreak(style, a))
CallParbreak == doc = <<>> /\ \E a \in NoArgs : Eval("parbreak", a, parbreak(style, a))
CallPagebreak == doc = <<>> /\ \E a \in NoArgs : Eval("pagebreak", a, pagebreak(style, a))
CallH == doc = <<>> /\ \E a \in SpacingArgs : Eval("h", a, h(style, a))
CallV == doc = <<>> /\ \E a \in SpacingArgs : Eval("v", a, v(style, a))
CallBoxed == doc = <<>> /\ \E a \in BoxArgs : Eval("box", a, boxed(style, a))
CallBlock == doc = <<>> /\ \E a \in BlockArgs : Eval("block", a, block(style, a))
CallPad == doc = <<>> /\ \E a \in PadArgs : Eval("pad", a, pad(style, a))
CallStack == doc = <<>> /\ \E a \in StackArgs : Eval("stack", a, stack(style, a))
CallGrid == doc = <<>> /\ \E a \in GridArgs : Eval("grid", a, grid(style, a))

NextCall ==
    \/ CallPage
    \/ CallAlign
    \/ CallLinebreak
    \/ CallParbreak
    \/ CallPagebreak
    \/ CallH
    \/ CallV
    \/ CallBoxed
    \/ CallBlock
    \/ CallPad
    \/ CallStack
    \/ CallGrid

SpecCall == InitCall /\ [][NextCall]_vars

\* ------------------------------- SpecFlow: align and stack in source order
FlowAlignArgs ==
    {Args(pos, named) :
        pos \in {<<VAlign("bottom")>>, <<VAlign("right")>>,
                 <<VAlign("center"), VAlign("center")>>, <<VAlign("top"), VAlign("left")>>},
        named \in [horizontal : {Absent}, vertical : {Absent, VAlign("bottom"), VStr("low")}]}

FlowStackArgs ==
    {Args(pos, named) :
        pos \in {<<VNode("A")>>, <<VNode("A"), VLength(8), VNode("B")>>},
        named \in [dir : {Absent}, spacing : {Absent, VLength(3)}]}

InitFlow == style = DefaultStyle /\ doc = <<>>

FlowAlign == Len(doc) < MaxCalls /\ \E a \in FlowAlignArgs : Eval("align", a, align(style, a))
FlowStack == Len(doc) < MaxCalls /\ \E a \in FlowStackArgs : Eval("stack", a, stack(style, a))

NextFlow ==
    \/ FlowAlign
    \/ FlowStack

SpecFlow == InitFlow /\ [][NextFlow]_vars

\* ------------------------------------------------------------------ claims
\* What the claims say of a call, stated on its Args and not by the code.
IsContent(x) == x.k = "node"
IsSpacer(x) == x.k \in {"length", "relative", "linear"}
IsTracks(x) == x.k \in {"auto", "length", "relative", "linear", "fractional", "int", "array"}

\* The linear value a length, a percentage or a linear stands for.
AsLinear(x) ==
    IF x.k = "length" THEN Linear(x.a, 0)
    ELSE IF x.k = "relative" THEN Linear(0, x.b)
    ELSE Linear(x.a, x.b)

\* The named arguments of a stack call are of their types.
StackNamedFit(e) ==
    /\ e.args.named.dir = Absent \/ e.args.named.dir.k = "dir"
    /\ e.args.named.spacing = Absent \/ IsSpacer(e.args.named.spacing)

\* The default spacing of a stack call, if configured.
StackDefault(e) ==
    IF e.args.named.spacing = Absent THEN None ELSE Some(AsLinear(e.args.named.spacing))

\* The content child built from positional x under style st.
ContentChild(x, st) == StackAny(ToBlock(x.s, st), st.par.align)

\* The children of a stack, element by element: a spacer gives itself; a content
\* element gives the default spacing first exactly when the element before it is
\* content too.
RECURSIVE StackExpected(_, _, _, _)
StackExpected(items, k, S, st) ==
    IF k > Len(items) THEN <<>>
    ELSE (IF IsContent(items[k])
          THEN (IF k > 1 /\ IsContent(items[k - 1]) /\ S # None
                THEN <<StackSpacing(S[1])>>
                ELSE <<>>) \o <<ContentChild(items[k], st)>>
          ELSE <<StackSpacing(AsLinear(items[k]))>>)
         \o StackExpected(items, k + 1, S, st)

\* C1: a stack of n >= 1 content elements and no explicit spacers has, with a
\* default spacing S, exactly 2n-1 children: the content children in input order
\* at the odd places and Spacing(S) at every even place, so none leads and none
\* trails; with no spacing configured it has exactly the n content children.
C1_StackInterleavesDefaultSpacing ==
    \A i \in 1..Len(doc) :
        LET e == doc[i]
            n == Len(e.args.pos)
            S == StackDefault(e)
        IN (/\ e.fn = "stack"
            /\ StackNamedFit(e)
            /\ n >= 1
            /\ \A k \in 1..n : IsContent(e.args.pos[k]))
           => /\ e.res.ok
              /\ LET children == e.res.v[1].children
                 IN IF S = None
                    THEN /\ Len(children) = n
                         /\ \A k \in 1..n :
                                children[k] = ContentChild(e.args.pos[k], e.before)
                    ELSE /\ Len(children) = 2 * n - 1
                         /\ \A k \in 1..n :
                                children[2 * k - 1] = ContentChild(e.args.pos[k], e.before)
                         /\ \A k \in 1..(n - 1) : children[2 * k] = StackSpacing(S[1])

\* C1 witness: three content elements with a default spacing gave five children.
C1_Witness ==
    \E i \in 1..Len(doc) :
        /\ doc[i].fn = "stack"
        /\ doc[i].res.ok
        /\ Len(doc[i].args.pos) = 3
        /\ \A k \in 1..3 : IsContent(doc[i].args.pos[k])
        /\ doc[i].args.named.spacing = VRelative(10)
        /\ Len(doc[i].res.v[1].children) = 5

\* C2: for every sequence of spacers and content elements, the default spacing
\* appears only right before a content element whose preceding input element
\* is content; between two content elements separated by explicit spacers the
\* children are those explicit spacers only.
C2_ExplicitSpacerSuppressesDefault ==
    \A i \in 1..Len(doc) :
        LET e == doc[i]
        IN (/\ e.fn = "stack"
            /\ StackNamedFit(e)
            /\ \A k \in 1..Len(e.args.pos) : IsContent(e.args.pos[k]) \/ IsSpacer(e.args.pos[k]))
           => /\ e.res.ok
              /\ e.res.v[1].children = StackExpected(e.args.pos, 1, StackDefault(e), e.before)

\* C2 witness: [A, 8pt, B] with default spacing 3pt gave [A, Spacing(8pt), B].
C2_Witness ==
    \E i \in 1..Len(doc) :
        /\ doc[i].fn = "stack"
        /\ doc[i].args.pos = <<VNode("A"), VLength(8), VNode("B")>>
        /\ doc[i].args.named.spacing = VLength(3)
        /\ doc[i].res.ok
        /\ doc[i].res.v[1].children =
               <<ContentChild(VNode("A"), doc[i].before), StackSpacing(Linear(8, 0)),
                 ContentChild(VNode("B"), doc[i].before)>>

\* The paper name a page call gives: the named one, else a leading string.
PaperGiven(e) ==
    IF e.args.named.paper # Absent THEN Some(e.args.named.paper.s)
    ELSE IF e.args.pos # <<>> /\ Head(e.args.pos).k = "str" THEN Some(Head(e.args.pos).s)
    ELSE None

FlipGiven(e) == e.args.named.flip = VBool(TRUE)

\* C3: after a successful page call the size is the preset's (else the previous
\* one), with width and height each replacing their component, and the two
\* components swapped last when flip is true.
C3_PageSizeOrder ==
    \A i \in 1..Len(doc) :
        LET e == doc[i]
        IN (e.fn = "page" /\ e.res.ok)
           => LET name == PaperGiven(e)
                  base == IF name # None
                          THEN [w |-> PaperFromName(name[1])[1].w,
                                h |-> PaperFromName(name[1])[1].h]
                          ELSE e.before.page.size
                  w1 == IF e.args.named.width # Absent THEN e.args.named.width.a ELSE base.w
                  h1 == IF e.args.named.height # Absent THEN e.args.named.height.a ELSE base.h
              IN e.after.page.size =
                     IF FlipGiven(e) THEN [w |-> h1, h |-> w1] ELSE [w |-> w1, h |-> h1]

\* C3 witness: a paper with a width and flip gave (preset height, width).
C3_Witness ==
    \E i \in 1..Len(doc) :
        /\ doc[i].fn = "page"
        /\ doc[i].res.ok
        /\ doc[i].args.named.paper = VStr("us-letter")
        /\ doc[i].args.named.width = VLength(1000)
        /\ FlipGiven(doc[i])
        /\ doc[i].after.page.size = [w |-> 2794, h |-> 1000]

\* The margin a successful page call leaves on one side.
MarginExpected(e, side) ==
    IF e.args.named[side] # Absent THEN Some(AsLinear(e.args.named[side]))
    ELSE IF e.args.named.margins # Absent THEN Some(AsLinear(e.args.named.margins))
    ELSE e.before.page.margins[side]

\* C4: after a successful page call each margin is the individual value if
\* given, else the uniform margins value if given, else its previous value.
C4_PageMarginsPrecedence ==
    \A i \in 1..Len(doc) :
        LET e == doc[i]
        IN (e.fn = "page" /\ e.res.ok)
           => \A side \in {"left", "top", "right", "bottom"} :
                  e.after.page.margins[side] = MarginExpected(e, side)

\* C4 witness: margins with left from a style whose margins were set before:
\* left took its own value and the other sides the uniform one.
C4_Witness ==
    \E i \in 1..Len(doc) :
        /\ doc[i].fn = "page"
        /\ doc[i].res.ok
        /\ doc[i].before = UsedStyle
        /\ doc[i].args.named.margins = VLength(10)
        /\ doc[i].args.named.left = VLength(20)
        /\ doc[i].args.named.top = Absent
        /\ doc[i].after.page.margins =
               Sides(Some(Linear(20, 0)), Some(Linear(10, 0)), Some(Linear(10, 0)),
                     Some(Linear(10, 0)))

\* The axis an alignment name belongs to.
IsHorizontal(x) == x.k = "align" /\ x.s \in {"left", "right"}
IsVertical(x) == x.k = "align" /\ x.s \in {"top", "bottom"}

\* C5: align with two positional values, one horizontal and one vertical, in
\* either order and no named arguments, leaves the horizontal one as the text
\* alignment and the vertical one as the paragraph alignment, and no other change.
C5_AlignOrderIndependent ==
    \A i \in 1..Len(doc) :
        LET e == doc[i]
        IN (/\ e.fn = "align"
            /\ e.args.named.horizontal = Absent
            /\ e.args.named.vertical = Absent
            /\ Len(e.args.pos) >= 2
            /\ \/ IsHorizontal(e.args.pos[1]) /\ IsVertical(e.args.pos[2])
               \/ IsVertical(e.args.pos[1]) /\ IsHorizontal(e.args.pos[2]))
           => LET hv == IF IsHorizontal(e.args.pos[1]) THEN e.args.pos[1] ELSE e.args.pos[2]
                  vv == IF IsVertical(e.args.pos[1]) THEN e.args.pos[1] ELSE e.args.pos[2]
              IN /\ e.res.ok
                 /\ e.after = [e.before EXCEPT !.text.align = hv.s, !.par.align = vv.s]

\* C5 witness: align(top, right), the vertical value first.
C5_Witness ==
    \E i \in 1..Len(doc) :
        /\ doc[i].fn = "align"
        /\ doc[i].args.pos = <<VAlign("top"), VAlign("right")>>
        /\ doc[i].args.named.horizontal = Absent
        /\ doc[i].args.named.vertical = Absent
        /\ doc[i].before = UsedStyle
        /\ doc[i].after.text.align = "right"
        /\ doc[i].after.par.align = "top"

\* The named arguments of a grid call other than key are of their type.
GridOthersFit(e, key) ==
    \A k \in DOMAIN e.args.named :
        k = key \/ e.args.named[k] = Absent \/ IsTracks(e.args.named[k])

\* The tracks an integer n stands for: max(n, 0) entries, each Auto.
CountTracks(tracks, n) ==
    /\ Len(tracks) = (IF n >= 0 THEN n ELSE 0)
    /\ \A k \in 1..Len(tracks) : tracks[k] = TrackAuto

\* C6: an integer n as the columns or rows of grid is no error and gives
\* exactly max(n, 0) tracks on that axis, each Auto.
C6_GridIntegerTracks ==
    \A i \in 1..Len(doc) :
        LET e == doc[i]
        IN e.fn = "grid"
           => /\ (e.args.named.columns.k = "int" /\ GridOthersFit(e, "columns"))
                 => /\ e.res.ok
                    /\ CountTracks(e.res.v[1].tracks.columns, e.args.named.columns.a)
              /\ (e.args.named.rows.k = "int" /\ GridOthersFit(e, "rows"))
                 => /\ e.res.ok
                    /\ CountTracks(e.res.v[1].tracks.rows, e.args.named.rows.a)

\* C6 witness: a negative column count with a positive row count.
C6_Witness ==
    \E i \in 1..Len(doc) :
        /\ doc[i].fn = "grid"
        /\ doc[i].res.ok
        /\ doc[i].args.named.columns = VInt(0 - MaxInt)
        /\ doc[i].args.named.rows = VInt(MaxInt)
        /\ doc[i].res.v[1].tracks.columns = <<>>
        /\ Len(doc[i].res.v[1].tracks.rows) = MaxInt

\* The gutter of one axis: its own argument if given, else gutter, else empty.
GutterExpected(e, key) ==
    IF e.args.named[key] # Absent THEN CastTracks(e.args.named[key]).v[1]
    ELSE IF e.args.named.gutter # Absent THEN CastTracks(e.args.named.gutter).v[1]
    ELSE <<>>

\* C7: in a successful grid call the column gutter is column-gutter if given
\* and else gutter, the row gutter is row-gutter if given and else gutter, each
\* axis on its own, and both are empty when nothing is given.
C7_GridGutterPerAxis ==
    \A i \in 1..Len(doc) :
        LET e == doc[i]
        IN (e.fn = "grid" /\ e.res.ok)
           => /\ e.res.v[1].gutter.columns = GutterExpected(e, "column_gutter")
              /\ e.res.v[1].gutter.rows = GutterExpected(e, "row_gutter")

\* C7 witness: gutter with a row-gutter override changed the rows only.
C7_Witness ==
    \E i \in 1..Len(doc) :
        /\ doc[i].fn = "grid"
        /\ doc[i].res.ok
        /\ doc[i].args.named.gutter = VLength(5)
        /\ doc[i].args.named.column_gutter = Absent
        /\ doc[i].args.named.row_gutter = VRelative(9)
        /\ doc[i].res.v[1].gutter.columns = <<TrackLinear(5, 0)>>
        /\ doc[i].res.v[1].gutter.rows = <<TrackLinear(0, 9)>>

\* A positional argument stack, or grid, can take as a child.
Fits(fn, x) == IF fn = "stack" THEN IsContent(x) \/ IsSpacer(x) ELSE IsContent(x)

\* The call is a stack or grid whose named arguments are of their types and
\* which has a positional argument that is no child.
MeetsUncastable(e) ==
    /\ e.fn \in {"stack", "grid"}
    /\ e.fn = "stack" => StackNamedFit(e)
    /\ e.fn = "grid" => GridOthersFit(e, "")
    /\ \E k \in 1..Len(e.args.pos) : ~Fits(e.fn, e.args.pos[k])

\* The place of the first positional argument that is no child.
FirstUncastable(e) ==
    CHOOSE k \in 1..Len(e.args.pos) :
        /\ ~Fits(e.fn, e.args.pos[k])
        /\ \A j \in 1..(k - 1) : Fits(e.fn, e.args.pos[j])

\* The children built from the arguments before place k.
ChildrenBefore(e, k) ==
    IF e.fn = "stack"
    THEN StackExpected(SubSeq(e.args.pos, 1, k - 1), 1, StackDefault(e), e.before)
    ELSE [j \in 1..(k - 1) |-> ToBlock(e.args.pos[j].s, e.before)]

\* C8 as stated: a stack or grid call that meets a positional argument it cannot
\* cast fails with an error.
C8_AllIsStrict ==
    \A i \in 1..Len(doc) : MeetsUncastable(doc[i]) => ~doc[i].res.ok

\* C8 amended: such a call does not fail; the node it returns begins with the
\* children built, in order, from the arguments before the first uncastable
\* one, and that argument is left unconsumed in Args.
C8_AllIsLenient ==
    \A i \in 1..Len(doc) :
        LET e == doc[i]
        IN MeetsUncastable(e)
           => LET k == FirstUncastable(e)
                  before == ChildrenBefore(e, k)
              IN /\ e.res.ok
                 /\ Len(e.res.v[1].children) >= Len(before)
                 /\ SubSeq(e.res.v[1].children, 1, Len(before)) = before
                 /\ e.left.pos # <<>>
                 /\ Head(e.left.pos) = e.args.pos[k]

\* C8 witness: stack(A, true, B) returned a node and left `true` in Args.
C8_Witness ==
    \E i \in 1..Len(doc) :
        /\ doc[i].fn = "stack"
        /\ doc[i].args.pos = <<VNode("A"), VBool(TRUE), VNode("B")>>
        /\ doc[i].res.ok
        /\ Len(doc[i].res.v[1].children) >= 1
        /\ Head(doc[i].left.pos) = VBool(TRUE)

\* The paragraph alignment after the first j calls: the vertical result of the
\* latest successful align among them that set one, else the initial value.
RECURSIVE ParAlignAfter(_)
ParAlignAfter(j) ==
    IF j = 0 THEN doc[1].before.par.align
    ELSE IF /\ doc[j].fn = "align"
            /\ doc[j].res.ok
            /\ AlignSlots(doc[j].args).slots.vertical # None
    THEN AlignSlots(doc[j].args).slots.vertical[1]
    ELSE ParAlignAfter(j - 1)

\* C9: every content child of a stack node carries the paragraph alignment
\* current when that stack call ran: what the latest earlier align set, whatever
\* later calls do.
C9_StackCapturesCurrentAlign ==
    \A i \in 1..Len(doc) :
        (doc[i].fn = "stack" /\ doc[i].res.ok)
        => \A k \in 1..Len(doc[i].res.v[1].children) :
               doc[i].res.v[1].children[k].c = "any"
               => doc[i].res.v[1].children[k].align = ParAlignAfter(i - 1)

\* C9 witness: a stack built after align(bottom) keeps bottom in its child while
\* a later align has moved the paragraph alignment on.
C9_Witness ==
    \E i \in 1..Len(doc) :
        /\ i > 1
        /\ i < Len(doc)
        /\ doc[i].fn = "stack"
        /\ doc[i].res.ok
        /\ doc[i].res.v[1].children[1].align = "bottom"
        /\ doc[Len(doc)].fn = "align"
        /\ style.par.align = "top"

\* C10: a call that returns an error leaves the StyleContext as it was.
C10_ErrorLeavesStyle ==
    /\ \A i \in 1..Len(doc) : ~doc[i].res.ok => doc[i].after = doc[i].before
    /\ (doc # <<>> /\ ~doc[Len(doc)].res.ok) => style = doc[Len(doc)].before

\* C10 witness: page with a valid paper and a wrongly typed width failed.
C10_Witness ==
    \E i \in 1..Len(doc) :
        /\ doc[i].fn = "page"
        /\ doc[i].before = DefaultStyle
        /\ doc[i].args.named.paper = VStr("us-letter")
        /\ doc[i].args.named.width = VStr("wide")
        /\ ~doc[i].res.ok
        /\ style = DefaultStyle

====
